---- MODULE Spec2Model ----
(***************************************************************************)
(* Model of the discount-policy engine of the LFY US Discount Researcher:  *)
(* the tier classifier and the policy aggregator (research/aggregate.py),  *)
(* the policy table builder (app.py) and the observation log they read     *)
(* (research/cache.py, research/extract.py), and the run controller of    *)
(* app.py that fills the log batch by batch (main, run_batch).             *)
(*                                                                         *)
(* Representation.  A table (pandas DataFrame) is a record                 *)
(* [columns |-> set of column names, rows |-> sequence of rows], a row     *)
(* being a function from the table's columns to values.  Text columns hold *)
(* strings, NA standing for a missing value; numeric columns hold an       *)
(* optional integer, <<v>> for the value v and <<>> for a missing one      *)
(* (None / NaN / pd.NA).  A brand name is a string; Chars gives its        *)
(* characters, which is what lower() and the substring test work on.       *)
(* A rational number is a pair <<numerator, denominator>>.                 *)
(***************************************************************************)
EXTENDS Integers, Sequences, FiniteSets, TLC

VARIABLES
    brands,        \* st.session_state.brands: the brand list of the run
    observations,  \* the caller's observation table (observations.csv as loaded)
    appended,      \* number of rows appended to the log since the start
    op,            \* the function called last ("none" before any call)
    given,         \* the observation table as it was passed to that call
    path,          \* the branch build_policy_output took at app.py:232
    tiers,         \* aggregate.py:112, the tier computed for each brand
    rows,          \* the List[PolicyRow] built by the last call
    outcome,       \* "ok" or the exception the last call raised
    output,        \* the table the last call returned (<<>> when it raised)
    price_args,    \* the prices compute_discount_pct is called with
    discount_pct,  \* what that call returned
    run_status,    \* st.session_state.run_status
    run_id,        \* st.session_state.run_id ("" for None)
    progress,      \* progress.json of the run: <<>> no file, <<payload>> else
    discovered_urls, \* discovered_urls.json of the run: combo_key -> urls
    errors,        \* errors.csv of the run: the context of each logged error
    batch,         \* the batch the last step passed to run_batch (<<>>: none)
    progress_value, \* the value the last step gave the progress bar
    uploads,       \* number of brand files uploaded so far
    crashes        \* number of steps interrupted so far

\* the variables of the policy functions
policyVars == <<brands, observations, appended, op, given, path, tiers, rows,
                outcome, output>>
\* the variables of a call of compute_discount_pct
priceVars == <<price_args, discount_pct>>
\* the variables of the run controller (with brands and observations)
controllerVars == <<run_status, run_id, progress, discovered_urls, errors,
                    batch, progress_value, uploads, crashes>>

vars == <<brands, observations, appended, op, given, path, tiers, rows, outcome,
          output, price_args, discount_pct, run_status, run_id, progress,
          discovered_urls, errors, batch, progress_value, uploads, crashes>>

(***************************************************************************)
(* Bounds of the model.                                                    *)
(***************************************************************************)
\* rows appended to the observation log by the fetch step
MaxAppend == 2
\* rows of full-price observations a loaded log starts with
MaxFullPrice == 9
\* largest magnitude of a price a page yields
MaxPrice == 8
\* batch_size of the configuration (app.py:369; 10 when it is not set)
batch_size == 2
\* brand files uploaded in a behaviour of the run controller
MaxUploads == 2
\* steps of the run controller interrupted in a behaviour
MaxCrashes == 1

(***************************************************************************)
(* Values.                                                                 *)
(***************************************************************************)
NA == "<NA>"
None == <<>>
Some(v) == <<v>>

Min(a, b) == IF a <= b THEN a ELSE b
Max(a, b) == IF a >= b THEN a ELSE b

\* Python's round() of the rational num/den (den > 0): nearest integer, a tie
\* going to the even neighbour.
PyRound(num, den) ==
    LET q == num \div den
        r == num % den
    IN  IF 2 * r < den THEN q
        ELSE IF 2 * r > den THEN q + 1
        ELSE IF q % 2 = 0 THEN q ELSE q + 1

\* Python's int() of the rational num/den: truncation towards zero.
PyInt(num, den) ==
    IF num >= 0 THEN num \div den ELSE -((-num) \div den)

(***************************************************************************)
(* research/aggregate.py: the fixed tables.                                *)
(***************************************************************************)
CATEGORIES ==
    << <<"Men", "Clothing">>, <<"Men", "Shoes">>, <<"Men", "Bags">>,
       <<"Men", "Accessories">>, <<"Men", "Jewelry">>, <<"Men", "Watches">>,
       <<"Women", "Clothing">>, <<"Women", "Shoes">>, <<"Women", "Bags">>,
       <<"Women", "Accessories">>, <<"Women", "Jewelry">>, <<"Women", "Watches">>,
       <<"Women", "Beauty">> >>

CATEGORY_DEFAULTS ==
    [Clothing |-> 20, Shoes |-> 18, Bags |-> 10, Accessories |-> 12,
     Jewelry |-> 8, Watches |-> 6, Beauty |-> 15]

\* faulty variant of MOSTLY_FULL_PRICE_DEFAULTS: the inferred-regime table
MOSTLY_FULL_PRICE_as_category_defaults == CATEGORY_DEFAULTS

MOSTLY_FULL_PRICE_DEFAULTS ==
    [Clothing |-> 8, Shoes |-> 8, Bags |-> 4, Accessories |-> 6,
     Jewelry |-> 3, Watches |-> 2, Beauty |-> 6]

TIER_A ==
    { <<"r", "o", "l", "e", "x">>,
      <<"c", "a", "r", "t", "i", "e", "r">>,
      <<"h", "e", "r", "m", "e", "s">>,
      <<"c", "h", "a", "n", "e", "l">>,
      <<"p", "a", "t", "e", "k">>,
      <<"o", "m", "e", "g", "a">>,
      <<"l", "o", "u", "i", "s", " ", "v", "u", "i", "t", "t", "o", "n">> }

TIER_D ==
    { <<"m", "i", "c", "h", "a", "e", "l", " ", "k", "o", "r", "s">>,
      <<"c", "o", "a", "c", "h">>,
      <<"k", "a", "t", "e", " ", "s", "p", "a", "d", "e">>,
      <<"t", "o", "r", "y", " ", "b", "u", "r", "c", "h">> }

TIER_B ==
    { <<"g", "u", "c", "c", "i">>,
      <<"p", "r", "a", "d", "a">>,
      <<"s", "a", "i", "n", "t", " ", "l", "a", "u", "r", "e", "n", "t">>,
      <<"b", "a", "l", "e", "n", "c", "i", "a", "g", "a">> }

TIER_C ==
    { <<"o", "f", "f", "-", "w", "h", "i", "t", "e">>,
      <<"v", "e", "r", "s", "a", "c", "e">>,
      <<"f", "e", "n", "d", "i">> }

\* The names aggregate.py binds at module level (what aggregate.<name> finds).
AggregateModuleNames ==
    {"CATEGORIES", "CATEGORY_DEFAULTS", "MOSTLY_FULL_PRICE_DEFAULTS",
     "TIER_A", "TIER_D", "TIER_B", "TIER_C", "PolicyRow", "infer_tier",
     "member_extra_for_tier", "_clamp", "aggregate_policy", "_trim_why",
     "policy_rows_to_dataframe", "dataclass", "median", "Dict", "Iterable",
     "List", "np", "pd", "annotations"}

\* The column list policy_rows_to_dataframe selects, in order.
PolicyColumns ==
    <<"brand", "gender", "category", "public_sale_discount_pct",
      "member_extra_pct", "public_discount_cap_pct", "discount_visibility",
      "msrp_strikethrough_rule", "coupon_eligibility", "evidence_level",
      "confidence", "why">>

(***************************************************************************)
(* Strings as character sequences.                                         *)
(***************************************************************************)
Chars(brand) ==
    CASE brand = "Rolex Boutique" -> <<"R", "o", "l", "e", "x", " ", "B", "o", "u", "t", "i", "q", "u", "e">>
      [] brand = "Coach Outlet" -> <<"C", "o", "a", "c", "h", " ", "O", "u", "t", "l", "e", "t">>
      [] brand = "Unknown Local Brand" -> <<"U", "n", "k", "n", "o", "w", "n", " ", "L", "o", "c", "a", "l", " ", "B", "r", "a", "n", "d">>
      [] brand = "GUCCI" -> <<"G", "U", "C", "C", "I">>
      [] brand = "Versace" -> <<"V", "e", "r", "s", "a", "c", "e">>
      [] brand = "Kate Spade x Cartier" -> <<"K", "a", "t", "e", " ", "S", "p", "a", "d", "e", " ", "x", " ", "C", "a", "r", "t", "i", "e", "r">>
      [] brand = "Prada Coach" -> <<"P", "r", "a", "d", "a", " ", "C", "o", "a", "c", "h">>
      [] brand = "Fendi Balenciaga" -> <<"F", "e", "n", "d", "i", " ", "B", "a", "l", "e", "n", "c", "i", "a", "g", "a">>

UpperCase ==
    <<"A", "B", "C", "D", "E", "F", "G", "H", "I", "J", "K", "L", "M",
      "N", "O", "P", "Q", "R", "S", "T", "U", "V", "W", "X", "Y", "Z">>

LowerCase ==
    <<"a", "b", "c", "d", "e", "f", "g", "h", "i", "j", "k", "l", "m",
      "n", "o", "p", "q", "r", "s", "t", "u", "v", "w", "x", "y", "z">>

\* str.lower(), one character
LowerChar(c) ==
    IF \E i \in 1..Len(UpperCase) : UpperCase[i] = c
        THEN LowerCase[CHOOSE i \in 1..Len(UpperCase) : UpperCase[i] = c]
        ELSE c

\* str.lower()
Lower(s) == [i \in 1..Len(s) |-> LowerChar(s[i])]

\* name in s (Python's substring test)
Contains(s, name) ==
    \E i \in 1..(Len(s) - Len(name) + 1) : SubSeq(s, i, i + Len(name) - 1) = name

(***************************************************************************)
(* research/aggregate.py: the tier classifier.                             *)
(***************************************************************************)
\* faulty variant of infer_tier: the name sets tried in the order A, B, C, D
infer_tier_alphabetical(brand) ==
    LET brand_lower == Lower(Chars(brand))
    IN  IF \E name \in TIER_A : Contains(brand_lower, name) THEN "A"
        ELSE IF \E name \in TIER_B : Contains(brand_lower, name) THEN "B"
        ELSE IF \E name \in TIER_C : Contains(brand_lower, name) THEN "C"
        ELSE IF \E name \in TIER_D : Contains(brand_lower, name) THEN "D"
        ELSE "A"

infer_tier(brand) ==
    LET brand_lower == Lower(Chars(brand))
    IN  IF \E name \in TIER_A : Contains(brand_lower, name) THEN "A"
        ELSE IF \E name \in TIER_D : Contains(brand_lower, name) THEN "D"
        ELSE IF \E name \in TIER_B : Contains(brand_lower, name) THEN "B"
        ELSE IF \E name \in TIER_C : Contains(brand_lower, name) THEN "C"
        ELSE "A"

\* faulty variant of member_extra_for_tier: no cap at 5 for deep sales
member_extra_uncapped(tier, sale_pct) ==
    LET ranges == [A |-> <<3, 5>>, B |-> <<5, 5>>, C |-> <<6, 8>>, D |-> <<8, 12>>]
        range == IF tier \in DOMAIN ranges THEN ranges[tier] ELSE <<3, 5>>
    IN  PyRound(range[1] + range[2], 2)

member_extra_for_tier(tier, sale_pct) ==
    LET ranges == [A |-> <<3, 5>>, B |-> <<5, 5>>, C |-> <<6, 8>>, D |-> <<8, 12>>]
        range == IF tier \in DOMAIN ranges THEN ranges[tier] ELSE <<3, 5>>
        low == range[1]
        high == range[2]
        member_extra == PyRound(low + high, 2)
    IN  IF sale_pct >= 30 THEN Min(member_extra, 5) ELSE member_extra

\* faulty variant of _clamp: only the lower limit applied
_clamp_lower_only(value, minimum, maximum) == Max(minimum, value)

_clamp(value, minimum, maximum) == Max(minimum, Min(value, maximum))

_trim_why(reason) == SubSeq(reason, 1, Min(15, Len(reason)))

(***************************************************************************)
(* statistics.median and numpy.percentile, on a list of integers.          *)
(***************************************************************************)
RECURSIVE Insert(_, _)
Insert(x, sorted) ==
    IF sorted = <<>> THEN <<x>>
    ELSE IF x <= Head(sorted) THEN <<x>> \o sorted
    ELSE <<Head(sorted)>> \o Insert(x, Tail(sorted))

RECURSIVE Sorted(_)
Sorted(data) ==
    IF data = <<>> THEN <<>> ELSE Insert(Head(data), Sorted(Tail(data)))

\* statistics.median(data), data non-empty: the middle value, or the mean of
\* the two middle values; a rational.
median(data) ==
    LET s == Sorted(data)
        n == Len(s)
    IN  IF n % 2 = 1 THEN <<s[(n + 1) \div 2], 1>>
        ELSE <<s[n \div 2] + s[(n \div 2) + 1], 2>>

\* np.percentile(data, q), data non-empty, default linear interpolation: the
\* value at the virtual index (n-1)*q/100 of the sorted data; a rational.
percentile(data, q) ==
    LET s == Sorted(data)
        n == Len(s)
        lo == ((n - 1) * q) \div 100
        frac == ((n - 1) * q) % 100
        below == s[lo + 1]
        above == IF lo + 2 <= n THEN s[lo + 2] ELSE s[lo + 1]
    IN  <<100 * below + frac * (above - below), 100>>

(***************************************************************************)
(* research/aggregate.py: the policy aggregator.                           *)
(***************************************************************************)
\* aggregate.py:114-118, the rows of the cell
CellSubset(obs, brand, gender, category) ==
    SelectSeq(obs.rows, LAMBDA r : /\ r["brand"] = brand
                                   /\ r["gender"] = gender
                                   /\ r["category"] = category)

\* faulty variant of CellDiscounts: discounts of 0 kept
RECURSIVE CellDiscounts_with_zero(_)
CellDiscounts_with_zero(subset) ==
    IF subset = <<>> THEN <<>>
    ELSE LET x == Head(subset)["discount_pct"]
             rest == CellDiscounts_with_zero(Tail(subset))
         IN  IF x # None /\ x[1] >= 0 THEN <<PyInt(x[1], 1)>> \o rest ELSE rest

\* aggregate.py:119-120, dropna() and then the strictly positive values, as ints
RECURSIVE CellDiscounts(_)
CellDiscounts(subset) ==
    IF subset = <<>> THEN <<>>
    ELSE LET x == Head(subset)["discount_pct"]
             rest == CellDiscounts(Tail(subset))
         IN  IF x # None /\ x[1] > 0 THEN <<PyInt(x[1], 1)>> \o rest ELSE rest

\* faulty variant of TierScaled: the product rounded, not truncated
TierScaled_rounded(tier, base_sale) ==
    IF tier = "A" THEN Max(4, PyRound(base_sale * 6, 10))
    ELSE IF tier = "B" THEN PyRound(base_sale * 8, 10)
    ELSE IF tier = "C" THEN PyRound(base_sale * 9, 10)
    ELSE PyRound(base_sale * 11, 10)

\* aggregate.py:139-146, the tier scaling of the category default; the factors
\* are the decimal fractions 0.6, 0.8, 0.9, 1.1 (on the seven category defaults
\* the floating-point products truncate to the same integers).
TierScaled(tier, base_sale) ==
    IF tier = "A" THEN Max(4, PyInt(base_sale * 6, 10))
    ELSE IF tier = "B" THEN PyInt(base_sale * 8, 10)
    ELSE IF tier = "C" THEN PyInt(base_sale * 9, 10)
    ELSE PyInt(base_sale * 11, 10)

\* aggregate.py:122-150, the evidence regime of a cell and its numbers
CellPolicy(tier, category, discounts, urls_checked) ==
    IF Len(discounts) >= 5 THEN
        LET m == median(discounts)
            p == percentile(discounts, 75)
            sale_pct == _clamp(PyRound(m[1], m[2]), 0, 60)
            cap_pct == _clamp(PyRound(p[1], p[2]), 0, 70)
        IN  [evidence |-> "OBSERVED", sale_pct |-> sale_pct,
             cap_pct |-> Max(cap_pct, sale_pct),
             why |-> <<"Observed", "sale", "medians">>, confidence |-> "HIGH"]
    ELSE IF urls_checked >= 10 /\ Len(discounts) < 2 THEN
        LET sale_pct == _clamp(IF category \in DOMAIN MOSTLY_FULL_PRICE_DEFAULTS
                                   THEN MOSTLY_FULL_PRICE_DEFAULTS[category]
                                   ELSE 6, 0, 60)
        IN  [evidence |-> "OBSERVED", sale_pct |-> sale_pct,
             cap_pct |-> _clamp(sale_pct + 5, 0, 70),
             why |-> <<"Mostly", "full", "price">>, confidence |-> "MED"]
    ELSE
        LET base_sale == IF category \in DOMAIN CATEGORY_DEFAULTS
                             THEN CATEGORY_DEFAULTS[category] ELSE 10
            sale_pct == _clamp(TierScaled(tier, base_sale), 0, 60)
        IN  [evidence |-> "INFERRED", sale_pct |-> sale_pct,
             cap_pct |-> _clamp(Max(sale_pct + 8, sale_pct), 0, 70),
             why |-> <<"Inferred", "conservative">>, confidence |-> "LOW"]

\* faulty variant of CellRow: the strikethrough rule follows the tier and the
\* coupon rule the evidence level
CellRow_rules_swapped(brand, tier, gender, category, obs) ==
    LET subset == CellSubset(obs, brand, gender, category)
        discounts == CellDiscounts(subset)
        urls_checked == Len(subset)
        pol == CellPolicy(tier, category, discounts, urls_checked)
        member_extra == _clamp(member_extra_for_tier(tier, pol.sale_pct), 0, 15)
    IN  [brand |-> brand, gender |-> gender, category |-> category,
         public_sale_discount_pct |-> pol.sale_pct,
         member_extra_pct |-> member_extra,
         public_discount_cap_pct |-> pol.cap_pct,
         discount_visibility |-> "SALE_ONLY",
         msrp_strikethrough_rule |->
             IF tier = "A" THEN "ONLY_IF_CREDIBLE" ELSE "NEVER",
         coupon_eligibility |->
             IF pol.evidence = "OBSERVED" THEN "WELCOME_ONLY"
                                          ELSE "WELCOME+RETARGET",
         evidence_level |-> pol.evidence,
         confidence |-> pol.confidence,
         why |-> _trim_why(pol.why)]

\* aggregate.py:113-170, the body of the inner loop: the PolicyRow of a cell
CellRow(brand, tier, gender, category, obs) ==
    LET subset == CellSubset(obs, brand, gender, category)
        discounts == CellDiscounts(subset)
        urls_checked == Len(subset)
        pol == CellPolicy(tier, category, discounts, urls_checked)
        member_extra == _clamp(member_extra_for_tier(tier, pol.sale_pct), 0, 15)
    IN  [brand |-> brand, gender |-> gender, category |-> category,
         public_sale_discount_pct |-> pol.sale_pct,
         member_extra_pct |-> member_extra,
         public_discount_cap_pct |-> pol.cap_pct,
         discount_visibility |-> "SALE_ONLY",
         msrp_strikethrough_rule |->
             IF pol.evidence = "OBSERVED" THEN "ONLY_IF_CREDIBLE" ELSE "NEVER",
         coupon_eligibility |->
             IF tier = "A" THEN "WELCOME_ONLY" ELSE "WELCOME+RETARGET",
         evidence_level |-> pol.evidence,
         confidence |-> pol.confidence,
         why |-> _trim_why(pol.why)]

\* faulty variant of CellRows: the loop stops one cell short
RECURSIVE CellRows_one_short(_, _, _, _)
CellRows_one_short(brand, tier, obs, k) ==
    IF k >= Len(CATEGORIES) THEN <<>>
    ELSE <<CellRow(brand, tier, CATEGORIES[k][1], CATEGORIES[k][2], obs)>>
             \o CellRows_one_short(brand, tier, obs, k + 1)

\* aggregate.py:113, the inner loop over CATEGORIES from position k on
RECURSIVE CellRows(_, _, _, _)
CellRows(brand, tier, obs, k) ==
    IF k > Len(CATEGORIES) THEN <<>>
    ELSE <<CellRow(brand, tier, CATEGORIES[k][1], CATEGORIES[k][2], obs)>>
             \o CellRows(brand, tier, obs, k + 1)

\* aggregate.py:102-110, an empty table is replaced by an empty four-column one
AggregateInput(obs) ==
    IF obs.columns = {} \/ obs.rows = <<>>
        THEN [columns |-> {"brand", "gender", "category", "discount_pct"},
              rows |-> <<>>]
        ELSE obs

\* aggregate.py:111-171, the outer loop over the brands
RECURSIVE BrandRows(_, _)
BrandRows(brandList, obs) ==
    IF brandList = <<>> THEN <<>>
    ELSE CellRows(Head(brandList), infer_tier(Head(brandList)), obs, 1)
             \o BrandRows(Tail(brandList), obs)

aggregate_policy(brandList, obs) == BrandRows(brandList, AggregateInput(obs))

\* aggregate.py:179-198: the rows as a table with the twelve columns selected
\* in order; a DataFrame built from no rows has no columns, and selecting the
\* twelve raises KeyError.
policy_rows_to_dataframe(policyRows) ==
    IF policyRows = <<>>
        THEN [raised |-> "KeyError", df |-> <<>>]
        ELSE [raised |-> "none",
              df |-> [columns |-> PolicyColumns, rows |-> policyRows]]

(***************************************************************************)
(* research/extract.py and research/cache.py: the observation log.         *)
(***************************************************************************)
\* extract.py:99-103 on optional integer prices.  "not price" holds of a
\* missing price and of 0.  The quotient is rounded exactly here; the code
\* rounds its floating-point value, which can differ only where the exact
\* percentage ends in .5.
compute_discount_pct(current_price, was_price) ==
    IF \/ current_price = None \/ current_price[1] = 0
       \/ was_price = None \/ was_price[1] = 0
       \/ was_price[1] <= 0
        THEN None
        ELSE Some(Max(0, PyRound((was_price[1] - current_price[1]) * 100,
                                 was_price[1])))

\* cache.py:83-93, the header of observations.csv
ObservationHeader ==
    {"brand", "gender", "category", "competitor", "url", "current_price",
     "was_price", "discount_pct", "timestamp"}

\* app.py:129-144, the row run_batch logs for a fetched page
ObservationRow(brand, gender, category, competitor, url, current_price, was_price) ==
    [brand |-> brand, gender |-> gender, category |-> category,
     competitor |-> competitor, url |-> url,
     current_price |-> current_price, was_price |-> was_price,
     discount_pct |-> compute_discount_pct(current_price, was_price),
     timestamp |-> "utcnow"]

\* a row with only the columns cols
Project(r, cols) == [c \in cols |-> r[c]]

(***************************************************************************)
(* app.py: the policy table builder.                                       *)
(***************************************************************************)
DEFAULT_CATEGORY_POLICY ==
    [Clothing |-> <<20, 40>>, Shoes |-> <<15, 35>>, Bags |-> <<10, 25>>,
     Accessories |-> <<15, 35>>, Jewelry |-> <<5, 15>>, Watches |-> <<0, 10>>,
     Beauty |-> <<15, 35>>]

\* faulty variant of DefaultRow: the coupon rule of the aggregator
DefaultRow_tier_coupon(brand, gender, category) ==
    LET policy == IF category \in DOMAIN DEFAULT_CATEGORY_POLICY
                      THEN DEFAULT_CATEGORY_POLICY[category] ELSE <<10, 25>>
    IN  [brand |-> brand, gender |-> gender, category |-> category,
         public_sale_discount_pct |-> policy[1],
         member_extra_pct |-> 5,
         public_discount_cap_pct |-> policy[2],
         discount_visibility |-> "SALE_ONLY",
         msrp_strikethrough_rule |-> "NEVER",
         coupon_eligibility |->
             IF infer_tier(brand) = "A" THEN "WELCOME_ONLY" ELSE "WELCOME+RETARGET",
         evidence_level |-> "INFERRED",
         confidence |-> "LOW",
         why |-> <<"No", "observations;", "inferred", "defaults">>]

\* app.py:197-216, the body of the inner loop
DefaultRow(brand, gender, category) ==
    LET policy == IF category \in DOMAIN DEFAULT_CATEGORY_POLICY
                      THEN DEFAULT_CATEGORY_POLICY[category] ELSE <<10, 25>>
        sale_pct == policy[1]
        cap_pct == policy[2]
        member_extra == IF sale_pct >= 30 THEN Min(5, 5) ELSE 5
    IN  [brand |-> brand, gender |-> gender, category |-> category,
         public_sale_discount_pct |-> sale_pct,
         member_extra_pct |-> member_extra,
         public_discount_cap_pct |-> cap_pct,
         discount_visibility |-> "SALE_ONLY",
         msrp_strikethrough_rule |-> "NEVER",
         coupon_eligibility |-> "WELCOME+RETARGET",
         evidence_level |-> "INFERRED",
         confidence |-> "LOW",
         why |-> <<"No", "observations;", "inferred", "defaults">>]

\* app.py:196, the inner loop over CATEGORIES from position k on
RECURSIVE DefaultCellRows(_, _)
DefaultCellRows(brand, k) ==
    IF k > Len(CATEGORIES) THEN <<>>
    ELSE <<DefaultRow(brand, CATEGORIES[k][1], CATEGORIES[k][2])>>
             \o DefaultCellRows(brand, k + 1)

RECURSIVE _build_inferred_defaults(_)
_build_inferred_defaults(brandList) ==
    IF brandList = <<>> THEN <<>>
    ELSE DefaultCellRows(Head(brandList), 1)
             \o _build_inferred_defaults(Tail(brandList))

\* DataFrame.empty: no rows or no columns
IsEmpty(table) == table.columns = {} \/ table.rows = <<>>

RequiredColumns == {"brand", "gender", "category", "discount_pct"}

\* the value "table[col] = pd.NA" stores in each row
MissingValue(col) ==
    IF col \in {"discount_pct", "current_price", "was_price"} THEN None ELSE NA

\* faulty variant of _normalize_observations: a table missing a required
\* column treated as an empty one
_normalize_observations_strict(table) ==
    IF IsEmpty(table) \/ ~(RequiredColumns \subseteq table.columns)
        THEN [ret |-> [columns |-> RequiredColumns, rows |-> <<>>],
              caller |-> table]
        ELSE [ret |-> [columns |-> RequiredColumns,
                       rows |-> [i \in 1..Len(table.rows) |->
                                    Project(table.rows[i], RequiredColumns)]],
              caller |-> table]

\* app.py:220-227.  ret is the table returned; caller is the caller's table
\* after the call: the missing columns are assigned on the argument itself.
_normalize_observations(table) ==
    IF IsEmpty(table)
        THEN [ret |-> [columns |-> RequiredColumns, rows |-> <<>>],
              caller |-> table]
        ELSE LET missing == RequiredColumns \ table.columns
                 cols == table.columns \cup missing
                 filled == [i \in 1..Len(table.rows) |->
                               [c \in cols |-> IF c \in table.columns
                                                   THEN table.rows[i][c]
                                                   ELSE MissingValue(c)]]
             IN  [ret |-> [columns |-> RequiredColumns,
                           rows |-> [i \in 1..Len(filled) |->
                                        Project(filled[i], RequiredColumns)]],
                  caller |-> [columns |-> cols, rows |-> filled]]

\* app.py:230-237.  The last line reads aggregate.POLICY_COLUMNS.
build_policy_output(brandList, table) ==
    LET norm == _normalize_observations(table)
        usesDefaults == IsEmpty(norm.ret)
        policyRows == IF usesDefaults
                          THEN _build_inferred_defaults(brandList)
                          ELSE aggregate_policy(brandList, norm.ret)
        frame == policy_rows_to_dataframe(policyRows)
    IN  [caller |-> norm.caller,
         path |-> IF usesDefaults THEN "defaults" ELSE "aggregator",
         rows |-> policyRows,
         outcome |-> IF frame.raised # "none" THEN frame.raised
                     ELSE IF "POLICY_COLUMNS" \notin AggregateModuleNames
                         THEN "AttributeError"
                     ELSE "ok",
         output |-> IF frame.raised = "none"
                        /\ "POLICY_COLUMNS" \in AggregateModuleNames
                        THEN frame.df ELSE <<>>]

(***************************************************************************)
(* The inputs.                                                             *)
(***************************************************************************)
BrandLists ==
    { <<>>,
      <<"Rolex Boutique">>,
      <<"Coach Outlet", "Unknown Local Brand">>,
      <<"GUCCI", "Versace">>,
      <<"Kate Spade x Cartier", "Prada Coach", "Fendi Balenciaga">> }

\* what a fetch can add to the log: cell, page and the prices found on it
Fetches ==
    { <<"Coach Outlet", "Men", "Clothing", "Farfetch", "u1", Some(60), Some(100)>>,
      <<"Coach Outlet", "Men", "Clothing", "MyTheresa", "u3", Some(100), None>>,
      <<"Coach Outlet", "Women", "Beauty", "Farfetch", "u5", Some(25), Some(100)>> }

FetchRow(f) == ObservationRow(f[1], f[2], f[3], f[4], f[5], f[6], f[7])

\* a page of a cell, found with no was-price
FullPriceRow(cell) ==
    ObservationRow(cell[1], cell[2], cell[3], "Net-a-Porter", "u0",
                   Some(100), None)

\* the cells the loaded logs are about
LoggedCells ==
    { <<"Coach Outlet", "Men", "Clothing">>,
      <<"Rolex Boutique", "Women", "Watches">> }

\* a page of the cell (Coach Outlet, Men, Clothing) marked down by d percent
\* (d = 0: the was-price equals the current price)
SaleRow(d) ==
    ObservationRow("Coach Outlet", "Men", "Clothing", "Net-a-Porter", "u0",
                   Some(100 - d), Some(100))

ColumnSets ==
    { ObservationHeader,
      RequiredColumns,
      ObservationHeader \ {"discount_pct"},
      ObservationHeader \ {"brand"} }

FullPriceTable(cols, cell, n) ==
    [columns |-> cols, rows |-> [i \in 1..n |-> Project(FullPriceRow(cell), cols)]]

\* the tables a run can load: no file (pd.DataFrame()); logs of full-price
\* pages, none of them or just under or just at the ten of the second
\* regime, with the log's header or with another set of columns; and logs
\* of marked-down pages (the first four of the discounts 10,20,20,30,40 and a
\* page at 0, six discounts up to 90, five discounts above the sale clamp)
InitialTables ==
    { [columns |-> {}, rows |-> <<>>] }
    \cup { FullPriceTable(ObservationHeader, cell, n) :
             cell \in LoggedCells, n \in {0, MaxFullPrice, MaxFullPrice + 1} }
    \cup { FullPriceTable(cols, <<"Coach Outlet", "Men", "Clothing">>, n) :
             cols \in ColumnSets, n \in {0, MaxFullPrice, MaxFullPrice + 1} }
    \cup { [columns |-> ObservationHeader,
            rows |-> [i \in 1..Len(ds) |-> SaleRow(ds[i])]] :
             ds \in { <<30, 0, 10, 20, 20>>, <<25, 64, 90, 10, 33, 90>>,
                      <<80, 65, 90, 70, 85>> } }

(***************************************************************************)
(* The state machine.                                                      *)
(***************************************************************************)
\* no call of compute_discount_pct is under way
NoPriceCall ==
    /\ price_args = <<None, None>>
    /\ discount_pct = None

\* app.py:285-292, a new session: st.session_state as main initialises it,
\* with no run directory on disk
NoRun ==
    /\ run_status = "idle"
    /\ run_id = ""
    /\ progress = <<>>
    /\ discovered_urls = {}
    /\ errors = <<>>
    /\ batch = <<>>
    /\ progress_value = <<0, 1>>
    /\ uploads = 0
    /\ crashes = 0

Init ==
    /\ brands \in BrandLists
    /\ observations \in InitialTables
    /\ appended = 0
    /\ op = "none"
    /\ given = <<>>
    /\ path = "none"
    /\ tiers = <<>>
    /\ rows = <<>>
    /\ outcome = "none"
    /\ output = <<>>
    /\ NoPriceCall
    /\ NoRun

\* cache.py:73-94 as called at app.py:132: one row more in the log, the header
\* written when the file is new.  The results of an earlier call were locals
\* of that call and are gone.
append_observation(f) ==
    /\ appended < MaxAppend
    /\ observations.columns \in {{}, ObservationHeader}
    /\ observations' = [columns |-> ObservationHeader,
                        rows |-> Append(observations.rows, FetchRow(f))]
    /\ appended' = appended + 1
    /\ op' = "none"
    /\ given' = <<>>
    /\ path' = "none"
    /\ tiers' = <<>>
    /\ rows' = <<>>
    /\ outcome' = "none"
    /\ output' = <<>>
    /\ UNCHANGED <<brands, priceVars, controllerVars>>

\* app.py:230-237 called on the run's brand list and table (app.py:400)
BuildPolicyOutput ==
    LET r == build_policy_output(brands, observations)
    IN  /\ observations' = r.caller
        /\ op' = "build_policy_output"
        /\ given' = observations
        /\ path' = r.path
        /\ tiers' = IF r.path = "aggregator"
                        THEN [i \in 1..Len(brands) |-> infer_tier(brands[i])]
                        ELSE <<>>
        /\ rows' = r.rows
        /\ outcome' = r.outcome
        /\ output' = r.output
        /\ UNCHANGED <<brands, appended, priceVars, controllerVars>>

\* aggregate.py:100-171 called on a table of observations (one that has the
\* four columns the aggregator reads, or an empty one)
AggregatePolicy ==
    /\ RequiredColumns \subseteq observations.columns \/ IsEmpty(observations)
    /\ op' = "aggregate_policy"
    /\ given' = observations
    /\ path' = "none"
    /\ tiers' = [i \in 1..Len(brands) |-> infer_tier(brands[i])]
    /\ rows' = aggregate_policy(brands, observations)
    /\ outcome' = "ok"
    /\ output' = <<>>
    /\ UNCHANGED <<brands, observations, appended, priceVars, controllerVars>>

Next ==
    \/ \E f \in Fetches : append_observation(f)
    \/ BuildPolicyOutput
    \/ AggregatePolicy

Spec == Init /\ [][Next]_vars

(***************************************************************************)
(* compute_discount_pct called on the prices a page can yield.             *)
(***************************************************************************)
\* what extract_prices can hand over for a price: none found, or a number
Prices == {None} \cup { Some(p) : p \in (0 - MaxPrice)..MaxPrice }

InitDiscount ==
    /\ brands = <<>>
    /\ observations = [columns |-> {}, rows |-> <<>>]
    /\ appended = 0
    /\ op = "none"
    /\ given = <<>>
    /\ path = "none"
    /\ tiers = <<>>
    /\ rows = <<>>
    /\ outcome = "none"
    /\ output = <<>>
    /\ price_args \in Prices \X Prices
    /\ discount_pct = None
    /\ NoRun

\* app.py:128-130, the call of extract.py:99-103 on the prices of a page
ComputeDiscountPct ==
    /\ op = "none"
    /\ op' = "compute_discount_pct"
    /\ discount_pct' = compute_discount_pct(price_args[1], price_args[2])
    /\ UNCHANGED <<brands, observations, appended, given, path, tiers, rows,
                   outcome, output, price_args, controllerVars>>

DiscountSpec == InitDiscount /\ [][ComputeDiscountPct]_vars

(***************************************************************************)
(* app.py: the run controller.  One step is one execution of main() in a   *)
(* session: the widgets are read, the progress of the run is loaded from   *)
(* its directory, and a running run with brands left fetches one batch,    *)
(* saves its progress and asks for the next execution.  The session state  *)
(* lives in the server process; the run directory is on disk.              *)
(***************************************************************************)
\* app.py:20-24, the competitors in the order the loop at app.py:85 takes them
COMPETITORS == <<"Net-a-Porter", "MyTheresa", "Farfetch">>

\* app.py:79, max_urls_per_combo of the configuration (its default)
max_urls == 6

\* s[:n]
Take(s, n) == SubSeq(s, 1, Min(n, Len(s)))

\* the members of a list
Elems(s) == { s[i] : i \in 1..Len(s) }

\* app.py:83-86, the combos of a brand in the order the loops visit them
Combos ==
    [i \in 1..(Len(CATEGORIES) * Len(COMPETITORS)) |->
        <<CATEGORIES[((i - 1) \div Len(COMPETITORS)) + 1][1],
          CATEGORIES[((i - 1) \div Len(COMPETITORS)) + 1][2],
          COMPETITORS[((i - 1) % Len(COMPETITORS)) + 1]>>]

\* discovery.py:62-79: the deduplicated links the search API has for the
\* query of a combo (nothing for most of them)
discover_urls(brand, gender, category, competitor, max_results) ==
    LET combo == <<brand, gender, category, competitor>>
        links ==
            IF combo = <<"Coach Outlet", "Men", "Clothing", "Net-a-Porter">>
                THEN <<"u1", "u2">>
            ELSE IF combo = <<"Rolex Boutique", "Women", "Watches", "Farfetch">>
                THEN <<"u3">>
            ELSE IF combo = <<"GUCCI", "Women", "Bags", "MyTheresa">>
                THEN <<"u4">>
            ELSE <<>>
    IN  Take(links, max_results)

\* extract.py fetch_html and extract_prices on a page: the prices found, or
\* the request raising (u2 is a page that answers 403)
extract_prices(url) ==
    IF url = "u1" THEN [raised |-> FALSE, current_price |-> Some(60),
                        was_price |-> Some(100)]
    ELSE IF url = "u3" THEN [raised |-> FALSE, current_price |-> Some(80),
                             was_price |-> Some(100)]
    ELSE IF url = "u4" THEN [raised |-> FALSE, current_price |-> Some(100),
                             was_price |-> None]
    ELSE [raised |-> TRUE, current_price |-> None, was_price |-> None]

\* the state of the network during a step: up, the search API failing every
\* request (requests.RequestException), or every page fetch failing
Networks == {"up", "search_down", "fetch_down"}

\* app.py:88, discovered_urls.get(combo_key, [])
CachedUrls(found, combo_key) ==
    IF \E e \in found : e[1] = combo_key
        THEN (CHOOSE e \in found : e[1] = combo_key)[2]
        ELSE <<>>

\* app.py:125-169, the loop over the urls of a combo: the rows appended to
\* observations.csv
RECURSIVE FetchedRows(_, _, _)
FetchedRows(combo_key, urls, net) ==
    IF urls = <<>> THEN <<>>
    ELSE LET page == extract_prices(Head(urls))
             rest == FetchedRows(combo_key, Tail(urls), net)
         IN  IF net = "fetch_down" \/ page.raised
                 THEN rest
                 ELSE <<ObservationRow(combo_key[1], combo_key[2], combo_key[3],
                                       combo_key[4], Head(urls),
                                       page.current_price, page.was_price)>>
                          \o rest

\* app.py:149-167, the contexts of the rows the same loop appends to errors.csv
RECURSIVE FetchErrors(_, _, _)
FetchErrors(combo_key, urls, net) ==
    IF urls = <<>> THEN <<>>
    ELSE LET page == extract_prices(Head(urls))
             rest == FetchErrors(combo_key, Tail(urls), net)
         IN  IF net = "fetch_down" \/ page.raised
                 THEN <<combo_key \o <<Head(urls)>>>> \o rest
                 ELSE rest

\* app.py:87-123, the urls of a combo: those of discovered_urls, or else the
\* ones the search finds (none when the search raises)
ComboUrls(combo_key, found, net) ==
    LET cached == CachedUrls(found, combo_key)
    IN  IF cached # <<>> THEN cached
        ELSE IF net = "search_down" THEN <<>>
        ELSE Take(discover_urls(combo_key[1], combo_key[2], combo_key[3],
                                combo_key[4], max_urls), max_urls)

\* app.py:87-169, the body of the loops for one combo: the rows it appends to
\* observations.csv, the contexts of the rows it appends to errors.csv, and
\* the entry it adds to discovered_urls.  A combo reads and writes only its
\* own key of the dict, and a batch visits each combo once, so every combo is
\* worked out from the dict as loaded.
ComboRows(combo_key, found, net) ==
    FetchedRows(combo_key, Take(ComboUrls(combo_key, found, net), max_urls), net)

ComboErrors(combo_key, found, net) ==
    (IF net = "search_down" /\ CachedUrls(found, combo_key) = <<>>
         THEN <<combo_key>> ELSE <<>>)
        \o FetchErrors(combo_key, Take(ComboUrls(combo_key, found, net), max_urls),
                       net)

ComboFound(combo_key, found, net) ==
    IF CachedUrls(found, combo_key) = <<>>
       /\ ComboUrls(combo_key, found, net) # <<>>
        THEN {<<combo_key, ComboUrls(combo_key, found, net)>>}
        ELSE {}

\* app.py:83-86, the loops over the cells and the competitors for one brand,
\* from combo k on: what they append to file f
RECURSIVE BrandLoop(_, _, _, _, _)
BrandLoop(f, brand, k, found, net) ==
    IF k > Len(Combos) THEN <<>>
    ELSE (IF f = "observations"
              THEN ComboRows(<<brand>> \o Combos[k], found, net)
              ELSE ComboErrors(<<brand>> \o Combos[k], found, net))
             \o BrandLoop(f, brand, k + 1, found, net)

\* app.py:82, the loop over the brands of the batch
RECURSIVE BatchLoop(_, _, _, _)
BatchLoop(f, batch_brands, found, net) ==
    IF batch_brands = <<>> THEN <<>>
    ELSE BrandLoop(f, Head(batch_brands), 1, found, net)
             \o BatchLoop(f, Tail(batch_brands), found, net)

\* app.py:73-170, one part of what a batch does: the rows it appends to
\* observations.csv, the contexts of the rows it appends to errors.csv, or
\* the discovered_urls dict it leaves
run_batch(part, batch_brands, found, net) ==
    IF part = "discovered_urls"
        THEN found \cup
             UNION { ComboFound(<<batch_brands[b]>> \o Combos[k], found, net) :
                       b \in 1..Len(batch_brands), k \in 1..Len(Combos) }
        ELSE BatchLoop(part, batch_brands, found, net)

\* cache.py:73-94: the log with the new rows appended, nothing else looked at
AppendObservations(log, newRows) ==
    IF newRows = <<>> THEN log
    ELSE [columns |-> ObservationHeader, rows |-> log.rows \o newRows]

\* faulty variant of _calculate_progress: the quotient is not capped
_calculate_progress_uncapped(completed_brands, total_brands) ==
    IF total_brands <= 0 THEN <<0, 1>>
    ELSE <<Len(completed_brands), total_brands>>

\* app.py:256-262: the progress as a rational number <<numerator, denominator>>
_calculate_progress(completed_brands, total_brands) ==
    IF total_brands <= 0 THEN <<0, 1>>
    ELSE LET quotient == <<Len(completed_brands), total_brands>>
         IN  IF quotient[1] >= quotient[2] THEN <<1, 1>>
             ELSE IF quotient[1] <= 0 THEN <<0, 1>>
             ELSE quotient

\* faulty variant of extend: the items are not added
extend_nothing(list, items) == list

\* app.py:376, list.extend
extend(list, items) == list \o items

\* faulty variant of Remaining: the completed brands are not left out
Remaining_all(brandList, completed) == brandList

\* app.py:345, the brands of the list not yet completed, in the list's order
Remaining(brandList, completed) ==
    SelectSeq(brandList, LAMBDA b : b \notin Elems(completed))

\* app.py:244-253 and 294-297: the run a session without a run id adopts, the
\* latest run directory that holds a progress.json
_find_latest_run == IF progress # <<>> THEN "run" ELSE ""

\* the brand files a user uploads (read_brands, app.py:40-56: no duplicates)
UploadedLists ==
    { <<"GUCCI">>,
      <<"Coach Outlet", "Rolex Boutique", "GUCCI">> }

\* the buttons of app.py:308-322; "none" is an execution no button started
Buttons == {"none", "Start", "Pause", "Resume", "Cancel"}

\* the controller keeps nothing of a call of the policy functions
NoPolicyCall ==
    /\ op' = "none"
    /\ given' = <<>>
    /\ path' = "none"
    /\ tiers' = <<>>
    /\ rows' = <<>>
    /\ outcome' = "none"
    /\ output' = <<>>

\* app.py:273-442, one execution of main(): button is the button pressed,
\* upload the brand file newly uploaded (None: the uploader is as it was),
\* net the state of the network while it runs (of no effect on an execution
\* that runs no batch, which is taken with the network up).  What follows
\* app.py:389 writes nothing the controller reads: the call of
\* build_policy_output at app.py:400 works on a table loaded for it and is
\* the action BuildPolicyOutput.
Main(button, upload, net) ==
    LET session_brands == IF upload = None THEN brands ELSE upload[1]
        adopted == IF run_id = "" THEN _find_latest_run ELSE run_id
        status == IF button \in {"Start", "Resume"} THEN "running"
                  ELSE IF button = "Pause" THEN "paused"
                  ELSE IF button = "Cancel" THEN "cancelled"
                  ELSE run_status
        new_run == button = "Start" /\ adopted = ""
        id == IF new_run THEN "run" ELSE adopted
        \* a new run id names a new, empty directory
        log == IF new_run THEN [columns |-> {}, rows |-> <<>>] ELSE observations
        found == IF new_run THEN {} ELSE discovered_urls
        errlog == IF new_run THEN <<>> ELSE errors
        total_brands == Len(session_brands)
        progress_payload ==
            IF progress = <<>>
                THEN [run_id |-> id, completed_brands |-> <<>>,
                      status |-> "initialized", total_brands |-> total_brands]
                ELSE [progress[1] EXCEPT !.total_brands = total_brands]
        completed == progress_payload.completed_brands
        remaining == Remaining(session_brands, completed)
        this_batch == Take(remaining, batch_size)
    IN  /\ upload # None => uploads < MaxUploads
        /\ button = "Start" => session_brands # <<>>
        /\ net # "up" => id # "" /\ status = "running" /\ remaining # <<>>
        /\ uploads' = IF upload # None THEN uploads + 1 ELSE uploads
        /\ brands' = session_brands
        /\ run_status' = status
        /\ run_id' = id
        /\ UNCHANGED <<appended, priceVars, crashes>>
        /\ IF id = ""
             THEN \* app.py:324-325
                  /\ batch' = <<>>
                  /\ NoPolicyCall
                  /\ UNCHANGED <<observations, progress, discovered_urls,
                                 errors, progress_value>>
           ELSE IF status = "cancelled"
             THEN \* app.py:362-366
                  /\ progress' = <<[progress_payload EXCEPT !.status = "cancelled"]>>
                  /\ progress_value' = _calculate_progress(completed, total_brands)
                  /\ batch' = <<>>
                  /\ observations' = log
                  /\ discovered_urls' = found
                  /\ errors' = errlog
                  /\ NoPolicyCall
           ELSE IF status = "running" /\ remaining # <<>>
             THEN \* app.py:368-385
                  /\ batch' = this_batch
                  /\ observations' =
                         AppendObservations(log, run_batch("observations",
                                                           this_batch, found, net))
                  /\ errors' = errlog \o run_batch("errors", this_batch, found, net)
                  /\ discovered_urls' =
                         run_batch("discovered_urls", this_batch, found, net)
                  /\ progress' =
                         <<[progress_payload EXCEPT
                              !.completed_brands = extend(completed, this_batch),
                              !.status = "running"]>>
                  /\ progress_value' =
                         _calculate_progress(extend(completed, this_batch),
                                             total_brands)
                  /\ NoPolicyCall
             ELSE \* app.py:387-389
                  /\ batch' = <<>>
                  /\ progress' = IF remaining = <<>>
                                     THEN <<[progress_payload EXCEPT
                                               !.status = "complete"]>>
                                     ELSE progress
                  /\ progress_value' = _calculate_progress(completed, total_brands)
                  /\ observations' = log
                  /\ discovered_urls' = found
                  /\ errors' = errlog
                  /\ NoPolicyCall

\* the server process is restarted between two executions: the session state
\* is gone (app.py:285-292 initialise it anew), the run directory stays
Restart ==
    /\ run_status' = "idle"
    /\ run_id' = ""
    /\ brands' = <<>>
    /\ batch' = <<>>
    /\ progress_value' = <<0, 1>>
    /\ NoPolicyCall
    /\ UNCHANGED <<observations, appended, priceVars, progress,
                   discovered_urls, errors, uploads, crashes>>

\* an execution of main() with no button pressed is interrupted between
\* app.py:375 and app.py:380 (an exception that run_batch does not catch, or
\* the process stopped): run_batch has appended its rows, while
\* discovered_urls.json and progress.json are not written.  The session
\* state is as it was; Restart is the case of the process being gone.
Interrupted(net) ==
    LET completed == progress[1].completed_brands
        remaining == Remaining(brands, completed)
        this_batch == Take(remaining, batch_size)
    IN  /\ crashes < MaxCrashes
        /\ run_status = "running"
        /\ run_id # ""
        /\ progress # <<>>
        /\ remaining # <<>>
        /\ crashes' = crashes + 1
        /\ batch' = this_batch
        /\ observations' =
               AppendObservations(observations,
                                  run_batch("observations", this_batch,
                                            discovered_urls, net))
        /\ errors' = errors \o run_batch("errors", this_batch, discovered_urls, net)
        /\ progress_value' = _calculate_progress(completed, Len(brands))
        /\ NoPolicyCall
        /\ UNCHANGED <<brands, appended, priceVars, run_status, run_id,
                       progress, discovered_urls, uploads>>

InitRun ==
    /\ brands = <<>>
    /\ observations = [columns |-> {}, rows |-> <<>>]
    /\ appended = 0
    /\ op = "none"
    /\ given = <<>>
    /\ path = "none"
    /\ tiers = <<>>
    /\ rows = <<>>
    /\ outcome = "none"
    /\ output = <<>>
    /\ NoPriceCall
    /\ NoRun

NextRun ==
    \/ \E button \in Buttons, upload \in {None} \cup { Some(l) : l \in UploadedLists },
          net \in Networks : Main(button, upload, net)
    \/ Restart
    \/ \E net \in Networks : Interrupted(net)

RunSpec == InitRun /\ [][NextRun]_vars

\* the execution st.experimental_rerun() asks for after a batch (app.py:385);
\* a run whose steps keep being taken gets it after an interrupted batch too
Rerun ==
    /\ run_status = "running"
    /\ batch # <<>>
    /\ \E net \in Networks : Main("none", None, net)

RunFair == RunSpec /\ WF_vars(Rerun)

(***************************************************************************)
(* Properties.                                                             *)
(***************************************************************************)
\* the last call ran the aggregator's loop
AggregatorRan ==
    \/ op = "aggregate_policy"
    \/ op = "build_policy_output" /\ path = "aggregator"

\* the table the aggregator's loop read in the last call
AggregatorTable == IF op = "aggregate_policy" THEN given ELSE observations

\* positions of the rows of table t that belong to the cell of policy row r
MatchingRows(t, r) ==
    { j \in 1..Len(t.rows) : /\ t.rows[j]["brand"] = r.brand
                             /\ t.rows[j]["gender"] = r.gender
                             /\ t.rows[j]["category"] = r.category }

\* those of them with a strictly positive discount
PositiveRows(t, r) ==
    { j \in MatchingRows(t, r) : /\ t.rows[j]["discount_pct"] # None
                                 /\ t.rows[j]["discount_pct"][1] > 0 }

\* the k-th smallest of the discounts at the positions js of table t
KthSmallest(t, js, k) ==
    CHOOSE v \in { t.rows[j]["discount_pct"][1] : j \in js } :
        /\ Cardinality({ j \in js : t.rows[j]["discount_pct"][1] < v }) < k
        /\ Cardinality({ j \in js : t.rows[j]["discount_pct"][1] <= v }) >= k

\* the tier of the brand of the i-th policy row, as the aggregator computed it
RowTier(i) == tiers[((i - 1) \div 13) + 1]

\* C1: for a non-empty brand list and any observation table,
\* build_policy_output returns a table of len(brands) * 13 rows with the
\* twelve canonical columns in their fixed order.
C1_RowsAndColumns ==
    (op = "build_policy_output" /\ Len(brands) > 0) =>
        /\ outcome = "ok"
        /\ output # <<>>
        /\ Len(output.rows) = Len(brands) * 13
        /\ output.columns =
               <<"brand", "gender", "category", "public_sale_discount_pct",
                 "member_extra_pct", "public_discount_cap_pct",
                 "discount_visibility", "msrp_strikethrough_rule",
                 "coupon_eligibility", "evidence_level", "confidence", "why">>

\* C2: every PolicyRow built, by the aggregator in any regime or by the
\* all-inferred default path, has cap >= sale, sale in [0,60], cap in [0,70]
\* and member extra in [0,15].
C2_RowBounds ==
    \A i \in 1..Len(rows) :
        /\ rows[i].public_discount_cap_pct >= rows[i].public_sale_discount_pct
        /\ rows[i].public_sale_discount_pct \in 0..60
        /\ rows[i].public_discount_cap_pct \in 0..70
        /\ rows[i].member_extra_pct \in 0..15

\* an observed-signal row whose sale and cap were both cut by the clamps
C2_Witness ==
    /\ op = "build_policy_output"
    /\ path = "aggregator"
    /\ \E i \in 1..Len(rows) :
           /\ rows[i].evidence_level = "OBSERVED"
           /\ rows[i].public_sale_discount_pct = 60
           /\ rows[i].public_discount_cap_pct = 70
           /\ KthSmallest(observations, PositiveRows(observations, rows[i]), 3) > 70

\* C3: a cell with at least 5 strictly positive discounts is OBSERVED / HIGH /
\* "Observed sale medians", its sale is the rounded median clamped to [0,60]
\* and its cap the rounded 75th percentile clamped to [0,70] and raised to the
\* sale; nulls and non-positive discounts are not counted and do not enter the
\* median.  The discounts {10,20,20,30,40} give sale 20 and cap 30.
C3_ObservedSignal ==
    AggregatorRan =>
        \A i \in 1..Len(rows) :
            LET t == AggregatorTable
                js == PositiveRows(t, rows[i])
                n == Cardinality(js)
                med == IF n % 2 = 1
                           THEN <<2 * KthSmallest(t, js, (n + 1) \div 2), 2>>
                           ELSE <<KthSmallest(t, js, n \div 2)
                                    + KthSmallest(t, js, (n \div 2) + 1), 2>>
                lo == (3 * (n - 1)) \div 4
                fr == (3 * (n - 1)) % 4
                below == KthSmallest(t, js, lo + 1)
                above == IF fr = 0 THEN below ELSE KthSmallest(t, js, lo + 2)
                p75 == <<4 * below + fr * (above - below), 4>>
                sale == Max(0, Min(60, PyRound(med[1], med[2])))
                cap == Max(Max(0, Min(70, PyRound(p75[1], p75[2]))), sale)
            IN  n >= 5 =>
                    /\ rows[i].evidence_level = "OBSERVED"
                    /\ rows[i].confidence = "HIGH"
                    /\ rows[i].why = <<"Observed", "sale", "medians">>
                    /\ rows[i].public_sale_discount_pct = sale
                    /\ rows[i].public_discount_cap_pct = cap
                    /\ ( /\ n = 5
                         /\ \A v \in {10, 30, 40} : \E j \in js :
                                t.rows[j]["discount_pct"] = <<v>>
                         /\ Cardinality({ j \in js :
                                t.rows[j]["discount_pct"] = <<20>> }) = 2 )
                       => /\ rows[i].public_sale_discount_pct = 20
                          /\ rows[i].public_discount_cap_pct = 30

\* the cell holds exactly the discounts 30,10,20,20,40 and has its row
C3_Witness ==
    /\ AggregatorRan
    /\ \E i \in 1..Len(rows) :
           LET js == PositiveRows(AggregatorTable, rows[i])
           IN  /\ Cardinality(js) = 5
               /\ \A v \in {10, 20, 30, 40} : \E j \in js :
                      AggregatorTable.rows[j]["discount_pct"] = <<v>>
               /\ rows[i].public_sale_discount_pct = 20
               /\ rows[i].confidence = "HIGH"

\* C4: a cell with at least 10 observations of which fewer than 2 have a
\* strictly positive discount is OBSERVED / MED / "Mostly full price", with
\* the category's mostly-full-price sale and cap = sale + 5, whatever the tier.
C4_MostlyFullPrice ==
    AggregatorRan =>
        \A i \in 1..Len(rows) :
            LET t == AggregatorTable
                sale == [Clothing |-> 8, Shoes |-> 8, Bags |-> 4,
                         Accessories |-> 6, Jewelry |-> 3, Watches |-> 2,
                         Beauty |-> 6][rows[i].category]
            IN  ( /\ Cardinality(MatchingRows(t, rows[i])) >= 10
                  /\ Cardinality(PositiveRows(t, rows[i])) < 2 )
                => /\ rows[i].evidence_level = "OBSERVED"
                   /\ rows[i].confidence = "MED"
                   /\ rows[i].why = <<"Mostly", "full", "price">>
                   /\ rows[i].public_sale_discount_pct = sale
                   /\ rows[i].public_discount_cap_pct = Max(0, Min(70, sale + 5))

\* a cell with ten or more observations, exactly one of them a sale
C4_Witness ==
    /\ AggregatorRan
    /\ \E i \in 1..Len(rows) :
           /\ RowTier(i) = "D"
           /\ Cardinality(MatchingRows(AggregatorTable, rows[i])) >= 10
           /\ Cardinality(PositiveRows(AggregatorTable, rows[i])) = 1
           /\ rows[i].confidence = "MED"

\* C5: a cell in neither OBSERVED regime (no observations, or 2 to 4 positive
\* discounts whatever the number of observations, or fewer than 10
\* observations with fewer than 2 positive) is INFERRED / LOW / "Inferred
\* conservative"; its sale is the category default scaled by the tier
\* (A: max(4, base*0.6), B: base*0.8, C: base*0.9, D: base*1.1), truncated and
\* clamped to [0,60], and its cap is sale + 8 clamped to [0,70].
C5_Inferred ==
    AggregatorRan =>
        \A i \in 1..Len(rows) :
            LET t == AggregatorTable
                seen == Cardinality(MatchingRows(t, rows[i]))
                pos == Cardinality(PositiveRows(t, rows[i]))
                base == [Clothing |-> 20, Shoes |-> 18, Bags |-> 10,
                         Accessories |-> 12, Jewelry |-> 8, Watches |-> 6,
                         Beauty |-> 15][rows[i].category]
                scaled == CASE RowTier(i) = "A" -> Max(4, (base * 6) \div 10)
                            [] RowTier(i) = "B" -> (base * 8) \div 10
                            [] RowTier(i) = "C" -> (base * 9) \div 10
                            [] RowTier(i) = "D" -> (base * 11) \div 10
                sale == Max(0, Min(60, scaled))
            IN  ( pos < 5 /\ ~(seen >= 10 /\ pos < 2) )
                => /\ rows[i].evidence_level = "INFERRED"
                   /\ rows[i].confidence = "LOW"
                   /\ rows[i].why = <<"Inferred", "conservative">>
                   /\ rows[i].public_sale_discount_pct = sale
                   /\ rows[i].public_discount_cap_pct = Max(0, Min(70, sale + 8))

\* an inferred cell with more than ten observations, two of them sales, next
\* to the never-observed cells of a second brand
C5_Witness ==
    /\ AggregatorRan
    /\ Len(brands) = 2
    /\ \E i \in 1..Len(rows) :
           /\ Cardinality(MatchingRows(AggregatorTable, rows[i])) > 10
           /\ Cardinality(PositiveRows(AggregatorTable, rows[i])) = 2
           /\ rows[i].evidence_level = "INFERRED"

\* the tier the claim gives a brand: that of the first of the name sets, in
\* the order A, D, B, C, with a member inside the lower-cased brand; A if none
ClaimedTier(brand) ==
    LET sets == << <<"A", TIER_A>>, <<"D", TIER_D>>, <<"B", TIER_B>>, <<"C", TIER_C>> >>
        hits == { k \in 1..4 : \E name \in sets[k][2] :
                      \E i \in 1..Len(Chars(brand)), j \in 1..Len(Chars(brand)) :
                          /\ j - i + 1 = Len(name)
                          /\ \A m \in 1..Len(name) :
                                 \/ Chars(brand)[i + m - 1] = name[m]
                                 \/ \E u \in 1..26 :
                                        /\ Chars(brand)[i + m - 1] = UpperCase[u]
                                        /\ name[m] = LowerCase[u] }
    IN  IF hits = {} THEN "A"
        ELSE sets[CHOOSE k \in hits : \A h \in hits : k <= h][1]

\* C6: infer_tier returns the tier of the first name set, in the order A, D,
\* B, C, with a member inside the lower-cased brand, and A when there is
\* none: "Rolex Boutique" is A, "Coach Outlet" is D, "Unknown Local Brand" is
\* A, and a brand with names of several tiers gets the earliest in that order.
C6_InferTier ==
    AggregatorRan =>
        /\ Len(tiers) = Len(brands)
        /\ \A i \in 1..Len(brands) :
               /\ tiers[i] = ClaimedTier(brands[i])
               /\ brands[i] = "Rolex Boutique" => tiers[i] = "A"
               /\ brands[i] = "Coach Outlet" => tiers[i] = "D"
               /\ brands[i] = "Unknown Local Brand" => tiers[i] = "A"
               /\ brands[i] = "Kate Spade x Cartier" => tiers[i] = "A"
               /\ brands[i] = "Prada Coach" => tiers[i] = "D"
               /\ brands[i] = "Fendi Balenciaga" => tiers[i] = "B"

\* the brands that carry names of two tiers have been classified
C6_Witness ==
    /\ AggregatorRan
    /\ tiers = <<"A", "D", "B">>
    /\ brands = <<"Kate Spade x Cartier", "Prada Coach", "Fendi Balenciaga">>

\* C7: aggregate_policy does not fail and returns one PolicyRow per (brand,
\* cell) pair, len(brands) * 13 in all, brand-major in the order of the brand
\* list and cell-minor in the fixed order of the 13 cells.
C7_OneRowPerCell ==
    op = "aggregate_policy" =>
        /\ outcome = "ok"
        /\ Len(rows) = Len(brands) * 13
        /\ \A b \in 1..Len(brands) : \A k \in 1..13 :
               LET r == rows[(b - 1) * 13 + k]
                   cells == << <<"Men", "Clothing">>, <<"Men", "Shoes">>,
                               <<"Men", "Bags">>, <<"Men", "Accessories">>,
                               <<"Men", "Jewelry">>, <<"Men", "Watches">>,
                               <<"Women", "Clothing">>, <<"Women", "Shoes">>,
                               <<"Women", "Bags">>, <<"Women", "Accessories">>,
                               <<"Women", "Jewelry">>, <<"Women", "Watches">>,
                               <<"Women", "Beauty">> >>
               IN  /\ r.brand = brands[b]
                   /\ r.gender = cells[k][1]
                   /\ r.category = cells[k][2]

\* three brands aggregated over a log that has rows
C7_Witness ==
    /\ op = "aggregate_policy"
    /\ Len(brands) = 3
    /\ Len(rows) = 39
    /\ Len(given.rows) > 0

\* the row the all-inferred default path is said to build for a cell
ClaimedDefaultRow(r) ==
    LET policy == [Clothing |-> <<20, 40>>, Shoes |-> <<15, 35>>,
                   Bags |-> <<10, 25>>, Accessories |-> <<15, 35>>,
                   Jewelry |-> <<5, 15>>, Watches |-> <<0, 10>>,
                   Beauty |-> <<15, 35>>][r.category]
    IN  /\ r.public_sale_discount_pct = policy[1]
        /\ r.public_discount_cap_pct = policy[2]
        /\ r.member_extra_pct = 5
        /\ r.msrp_strikethrough_rule = "NEVER"
        /\ r.coupon_eligibility = "WELCOME+RETARGET"
        /\ r.evidence_level = "INFERRED"
        /\ r.confidence = "LOW"
        /\ r.why = <<"No", "observations;", "inferred", "defaults">>

\* C8 as stated: when the observation table is empty or is missing a required
\* column, build_policy_output takes the all-inferred default path for every
\* cell; the aggregator is used only otherwise.
C8_DefaultsWhenEmptyOrMissing ==
    op = "build_policy_output" =>
        /\ (IsEmpty(given) \/ ~(RequiredColumns \subseteq given.columns))
               <=> path = "defaults"
        /\ path = "defaults" => \A i \in 1..Len(rows) : ClaimedDefaultRow(rows[i])

\* C8 as amended: the all-inferred default path is taken exactly when the
\* observation table is empty (no rows or no columns), and then every row is
\* the default row of its category; a table with rows goes to the aggregator
\* even when required columns are missing, those being synthesized as
\* all-null.
C8_DefaultsWhenEmpty ==
    op = "build_policy_output" =>
        /\ IsEmpty(given) <=> path = "defaults"
        /\ path = "defaults" =>
               /\ Len(rows) = Len(brands) * 13
               /\ \A i \in 1..Len(rows) : ClaimedDefaultRow(rows[i])
        /\ path = "aggregator" =>
               /\ RequiredColumns \subseteq observations.columns
               /\ \A j \in 1..Len(observations.rows) :
                      \A c \in RequiredColumns \ given.columns :
                          IF c = "discount_pct"
                              THEN observations.rows[j][c] = None
                              ELSE observations.rows[j][c] = NA

\* a log with rows but without the brand column went to the aggregator
C8_Witness ==
    /\ op = "build_policy_output"
    /\ path = "aggregator"
    /\ "brand" \notin given.columns
    /\ Len(given.rows) >= 10
    /\ Len(rows) > 0

\* C9 as stated: on an empty observation table the coupon_eligibility of a
\* tier-D brand's row from build_policy_output never equals that of the
\* aggregator's zero-observation row for the same brand and cell.
C9_TierDCouponDiffers ==
    (op = "build_policy_output" /\ IsEmpty(given)) =>
        \A i \in 1..Len(rows) :
            infer_tier(rows[i].brand) = "D" =>
                rows[i].coupon_eligibility
                    # CellRow(rows[i].brand, infer_tier(rows[i].brand), rows[i].gender,
                              rows[i].category, AggregateInput(given)).coupon_eligibility

\* C9 as amended: on an empty observation table the two coupon_eligibility
\* values differ for every tier-A brand (a curated A name or an unmatched
\* brand) and are equal for every brand of another tier, tier D included.
C9_TierACouponDiffers ==
    (op = "build_policy_output" /\ IsEmpty(given)) =>
        \A i \in 1..Len(rows) :
            LET agg == CellRow(rows[i].brand, infer_tier(rows[i].brand),
                               rows[i].gender, rows[i].category,
                               AggregateInput(given))
            IN  /\ agg.brand = rows[i].brand
                /\ agg.category = rows[i].category /\ agg.gender = rows[i].gender
                /\ agg.evidence_level = "INFERRED"
                /\ infer_tier(rows[i].brand) = "A" <=>
                       rows[i].coupon_eligibility # agg.coupon_eligibility

\* defaults built for a tier-D brand and an unmatched brand
C9_Witness ==
    /\ op = "build_policy_output"
    /\ IsEmpty(given)
    /\ path = "defaults"
    /\ brands = <<"Coach Outlet", "Unknown Local Brand">>
    /\ Len(rows) = 26

\* C10: member_extra_pct is the midpoint round((low+high)/2) of the tier's
\* range (A:[3,5], B:[5,5], C:[6,8], D:[8,12]), lowered to min(midpoint, 5)
\* exactly when the row's sale is >= 30, clamped to [0,15]; given the tier and
\* whether sale >= 30, the evidence regime does not matter.
C10_MemberExtra ==
    AggregatorRan =>
        \A i \in 1..Len(rows) :
            LET range == [A |-> <<3, 5>>, B |-> <<5, 5>>, C |-> <<6, 8>>,
                          D |-> <<8, 12>>][RowTier(i)]
                midpoint == [A |-> 4, B |-> 5, C |-> 7, D |-> 10][RowTier(i)]
                expected == IF rows[i].public_sale_discount_pct >= 30
                                THEN Min(midpoint, 5) ELSE midpoint
            IN  /\ 2 * midpoint = range[1] + range[2]
                /\ rows[i].member_extra_pct = Max(0, Min(15, expected))

\* a tier-D brand with one cell selling at 30 or more and the others below
C10_Witness ==
    /\ AggregatorRan
    /\ \E i \in 1..Len(rows), k \in 1..Len(rows) :
           /\ RowTier(i) = "D" /\ RowTier(k) = "D"
           /\ rows[i].public_sale_discount_pct >= 30
           /\ rows[i].member_extra_pct = 5
           /\ rows[k].public_sale_discount_pct < 30
           /\ rows[k].member_extra_pct = 10

\* C11: in every row the aggregator builds, discount_visibility is SALE_ONLY,
\* msrp_strikethrough_rule is ONLY_IF_CREDIBLE exactly when the evidence level
\* is OBSERVED and NEVER otherwise, and coupon_eligibility is WELCOME_ONLY
\* exactly when the brand's tier is A and WELCOME+RETARGET otherwise; a brand
\* that matches no tier list is tier A and gets WELCOME_ONLY.
C11_FixedFields ==
    AggregatorRan =>
        \A i \in 1..Len(rows) :
            /\ rows[i].discount_visibility = "SALE_ONLY"
            /\ rows[i].msrp_strikethrough_rule =
                   IF rows[i].evidence_level = "OBSERVED"
                       THEN "ONLY_IF_CREDIBLE" ELSE "NEVER"
            /\ rows[i].coupon_eligibility =
                   IF RowTier(i) = "A" THEN "WELCOME_ONLY"
                                       ELSE "WELCOME+RETARGET"
            /\ rows[i].brand = "Unknown Local Brand" =>
                   rows[i].coupon_eligibility = "WELCOME_ONLY"

\* an observed row of a tier-D brand beside the rows of an unmatched brand
C11_Witness ==
    /\ AggregatorRan
    /\ \E i \in 1..Len(rows), k \in 1..Len(rows) :
           /\ RowTier(i) = "D"
           /\ rows[i].evidence_level = "OBSERVED"
           /\ rows[i].msrp_strikethrough_rule = "ONLY_IF_CREDIBLE"
           /\ rows[i].coupon_eligibility = "WELCOME+RETARGET"
           /\ rows[k].brand = "Unknown Local Brand"
           /\ rows[k].evidence_level = "INFERRED"
           /\ rows[k].msrp_strikethrough_rule = "NEVER"
           /\ rows[k].coupon_eligibility = "WELCOME_ONLY"

\* C12: build_policy_output and aggregate_policy are side-effect-free and
\* stateless: after a call the caller's observation table is exactly the table
\* that was passed (same columns, same rows), and a second call with the same
\* brand list on that table builds the same rows.
C12_SideEffectFree ==
    /\ op = "aggregate_policy" =>
           /\ observations = given
           /\ aggregate_policy(brands, observations) = rows
    /\ op = "build_policy_output" =>
           /\ observations = given
           /\ build_policy_output(brands, observations).rows = rows

\* C13: compute_discount_pct returns round((was - current) / was * 100)
\* clamped to >= 0 when both prices are present and positive, returns no value
\* whenever either price is missing or non-positive (zero or negative), the
\* current price as well as the was-price, and a value it returns is always
\* in [0, 100].
C13_DiscountPct ==
    op = "compute_discount_pct" =>
        LET current_price == price_args[1]
            was_price == price_args[2]
        IN  /\ ( /\ current_price # None /\ was_price # None
                 /\ current_price[1] > 0 /\ was_price[1] > 0 ) =>
                   discount_pct =
                       Some(Max(0, PyRound((was_price[1] - current_price[1]) * 100,
                                           was_price[1])))
            /\ ( \/ current_price = None \/ was_price = None
                 \/ current_price[1] <= 0 \/ was_price[1] <= 0 ) =>
                   discount_pct = None
            /\ discount_pct # None => discount_pct[1] \in 0..100

\* completed_brands as persisted in progress.json (none before the file exists)
Completed == IF progress = <<>> THEN <<>> ELSE progress[1].completed_brands

\* s is an initial part of t
IsPrefix(s, t) == Len(s) <= Len(t) /\ SubSeq(t, 1, Len(s)) = s

\* C14: the progress the run controller shows is always within [0, 1]: 0 when
\* the brand list is empty, else len(completed) / total capped at 1, also when
\* the persisted completed list is longer than the current brand list.
C14_ProgressBounded ==
    LET num == progress_value[1]
        den == progress_value[2]
        total_brands == Len(brands)
    IN  /\ den > 0 /\ 0 <= num /\ num <= den
        /\ total_brands <= 0 => num = 0
        /\ total_brands > 0 =>
               IF Len(Completed) >= total_brands
                   THEN num = den
                   ELSE num * total_brands = Len(Completed) * den

\* the completed list of an earlier brand file is longer than the list now
\* loaded, and the bar is full
C14_Witness ==
    /\ run_id # ""
    /\ Len(brands) > 0
    /\ Len(Completed) > Len(brands)
    /\ progress_value = <<1, 1>>

\* C15: the controller is resumable: over any steps, restarts included, no
\* brand recorded in completed_brands is passed to run_batch again, a step
\* passes run_batch exactly the first batch_size brands of the remaining list
\* in brand-list order, and completed_brands only grows.
C15_Resumable ==
    [][ /\ \A i \in 1..Len(batch') : batch'[i] \notin Elems(Completed)
        /\ batch' # <<>> =>
               /\ Len(batch') <= batch_size
               /\ batch' = SubSeq(SelectSeq(brands',
                                            LAMBDA b : b \notin Elems(Completed)),
                                  1, Len(batch'))
               /\ \/ Len(batch') = batch_size
                  \/ \A i \in 1..Len(brands') :
                         brands'[i] \in Elems(Completed) \cup Elems(batch')
        /\ IsPrefix(Completed, Completed') ]_vars

\* the brand file was loaded a second time, and the second batch of the list
\* has been run and recorded behind the first
C15_Witness ==
    /\ Completed = <<"Coach Outlet", "Rolex Boutique", "GUCCI">>
    /\ batch = <<"GUCCI">>
    /\ crashes = 0
    /\ uploads = 2

\* C16: a step of the controller is idempotent: when a step is interrupted
\* after run_batch appended its observations and before the progress is
\* saved, executing it again leaves the log as one uninterrupted execution
\* would, so the log never holds two rows for the same (brand, gender,
\* category, competitor, url).
C16_StepIdempotent ==
    \A i \in 1..Len(observations.rows), j \in 1..Len(observations.rows) :
        ( /\ observations.rows[i]["brand"] = observations.rows[j]["brand"]
          /\ observations.rows[i]["gender"] = observations.rows[j]["gender"]
          /\ observations.rows[i]["category"] = observations.rows[j]["category"]
          /\ observations.rows[i]["competitor"] = observations.rows[j]["competitor"]
          /\ observations.rows[i]["url"] = observations.rows[j]["url"] ) => i = j

\* C17: a run that stays running and whose steps keep being taken terminates:
\* every step that is not interrupted adds its whole batch to completed_brands,
\* whatever failed in it, so that the remaining list gets empty and the
\* persisted status "complete"; and a step taken while the status is paused or
\* cancelled runs no batch and leaves completed_brands as it is.
C17_Terminates ==
    /\ <>[](run_status = "running" /\ run_id # "") =>
           <>[]( /\ progress # <<>>
                 /\ progress[1].status = "complete"
                 /\ Remaining(brands, Completed) = <<>> )
    /\ [][ /\ (batch' # <<>> /\ crashes' = crashes) =>
                  Completed' = Completed \o batch'
           /\ run_status' \in {"paused", "cancelled"} =>
                  batch' = <<>> /\ Completed' = Completed ]_vars

\* a run completed although every search of its batches failed
C17_Witness ==
    /\ run_status = "running"
    /\ progress # <<>>
    /\ progress[1].status = "complete"
    /\ Len(brands) = 3
    /\ Completed = brands
    /\ observations.rows = <<>>
    /\ Len(errors) = 3 * Len(Combos)

====
